---- MODULE Spec2Model ----
(***************************************************************************)
(* Model of the xm-service company service: the CompanyService             *)
(* orchestrator (internal/service/company.go), the entity validator        *)
(* (internal/core/domain.go) and the PostgreSQL repository                 *)
(* (internal/platform/postgres/repository.go), run by concurrent request   *)
(* goroutines.  Every repository call and every publish is one atomic      *)
(* step; the code between two such calls is local to the goroutine and is  *)
(* folded into the step of the call that precedes it.                      *)
(***************************************************************************)
EXTENDS Integers, Sequences, FiniteSets, TLC

\* ------------------------------------------------------------------ bounds

\* Total number of service calls started in one behaviour.
MaxCalls == 3

\* Number of collaborator failures (database or broker) injected in one behaviour.
MaxFaults == 1

\* The request goroutines that may run concurrently.
Procs == {"p1", "p2"}

\* ------------------------------------------------------------- values

\* A Go nil pointer is the empty sequence, a non-nil pointer the one-element
\* sequence of the value pointed to.
Nil == <<>>

Ptr(v) == <<v>>

\* The nil error.
NoError == "<nil>"

ErrNotFound == "company not found"

ErrDuplicateName == "company name already exists"

\* Any error of the driver that is not a unique violation (connection lost,
\* context cancelled, check violation, value too long): returned unchanged.
ErrStorage == "pq: storage failure"

\* The error the broker writer returns when a message cannot be written.
ErrPublish == "kafka: write failed"

MaxNameLen == 15

MaxDescriptionLen == 3000

ValidCompanyTypes == {"Corporations", "NonProfit", "Cooperative", "Sole Proprietorship"}

\* A string of n characters.
RECURSIVE Rep(_)
Rep(n) ==
    IF n = 0 THEN ""
    ELSE IF n % 2 = 0 THEN LET h == Rep(n \div 2) IN h \o h
    ELSE "x" \o Rep(n - 1)

Name15 == Rep(MaxNameLen)

Name16 == Rep(MaxNameLen + 1)

Desc3000 == Rep(MaxDescriptionLen)

Desc3001 == Rep(MaxDescriptionLen + 1)

\* uuid.Nil, the zero value of Company.ID.
NilID == 0

Company(id, name, desc, emp, reg, typ) ==
    [ID |-> id, Name |-> name, Description |-> desc, Employees |-> emp,
     Registered |-> reg, Type |-> typ]

\* ------------------------------------------------------------- validator

IsValid(ct) == ct \in ValidCompanyTypes

\* Validate without the employees rule.
Validate_NoEmployeesRule(c) ==
    IF c.Name = "" THEN "name is required"
    ELSE IF Len(c.Name) > MaxNameLen THEN "name must be 15 characters or fewer"
    ELSE IF c.Description # Nil /\ Len(c.Description[1]) > MaxDescriptionLen
        THEN "description must be 3000 characters or fewer"
    ELSE IF ~IsValid(c.Type) THEN "invalid company type: " \o c.Type
    ELSE NoError

\* Validate that checks the type before the employees.
Validate_TypeBeforeEmployees(c) ==
    IF c.Name = "" THEN "name is required"
    ELSE IF Len(c.Name) > MaxNameLen THEN "name must be 15 characters or fewer"
    ELSE IF c.Description # Nil /\ Len(c.Description[1]) > MaxDescriptionLen
        THEN "description must be 3000 characters or fewer"
    ELSE IF ~IsValid(c.Type) THEN "invalid company type: " \o c.Type
    ELSE IF c.Employees < 0 THEN "employees cannot be negative"
    ELSE NoError

Validate(c) ==
    IF c.Name = "" THEN "name is required"
    ELSE IF Len(c.Name) > MaxNameLen THEN "name must be 15 characters or fewer"
    ELSE IF c.Description # Nil /\ Len(c.Description[1]) > MaxDescriptionLen
        THEN "description must be 3000 characters or fewer"
    ELSE IF c.Employees < 0 THEN "employees cannot be negative"
    ELSE IF ~IsValid(c.Type) THEN "invalid company type: " \o c.Type
    ELSE NoError

\* ------------------------------------------------------------- merger

\* Dynamically typed values of a decoded field map (interface{}).
StrV(s) == [k |-> "string", s |-> s]

\* A float64, held in tenths: FloatV(25) is 2.5.
FloatV(t) == [k |-> "float64", f |-> t]

IntV(n) == [k |-> "int", i |-> n]

BoolV(b) == [k |-> "bool", b |-> b]

NullV == [k |-> "nil"]

Has(updates, key) == key \in DOMAIN updates

\* int(emp) for a float64 emp: truncation toward zero.
IntOfFloat(t) == IF t >= 0 THEN t \div 10 ELSE -((-t) \div 10)

\* ApplyName that also clears the entity's id when the map has an id key.
ApplyName_TakesID(st, updates) ==
    LET own == IF Has(updates, "id") THEN [st EXCEPT !.c.ID = NilID] ELSE st
    IN  IF own.err # NoError \/ ~Has(updates, "name") THEN own
        ELSE IF updates["name"].k = "string"
            THEN [own EXCEPT !.c.Name = updates["name"].s]
        ELSE [own EXCEPT !.err = "name must be a string"]

\* Each step of applyUpdates takes and returns the pair of the entity as
\* mutated so far and the error returned so far; a step after an error is
\* skipped (the function has returned).
ApplyName(st, updates) ==
    IF st.err # NoError \/ ~Has(updates, "name") THEN st
    ELSE IF updates["name"].k = "string"
        THEN [st EXCEPT !.c.Name = updates["name"].s]
    ELSE [st EXCEPT !.err = "name must be a string"]

\* ApplyDescription that takes a missing key for an explicit null.
ApplyDescription_AbsentClears(st, updates) ==
    IF st.err # NoError THEN st
    ELSE IF ~Has(updates, "description") \/ updates["description"].k = "nil"
        THEN [st EXCEPT !.c.Description = Nil]
    ELSE IF updates["description"].k = "string"
        THEN [st EXCEPT !.c.Description = Ptr(updates["description"].s)]
    ELSE [st EXCEPT !.err = "description must be a string or null"]

\* ApplyDescription that leaves the description alone on an explicit null.
ApplyDescription_NullIgnored(st, updates) ==
    IF st.err # NoError \/ ~Has(updates, "description") THEN st
    ELSE IF updates["description"].k = "nil"
        THEN st
    ELSE IF updates["description"].k = "string"
        THEN [st EXCEPT !.c.Description = Ptr(updates["description"].s)]
    ELSE [st EXCEPT !.err = "description must be a string or null"]

ApplyDescription(st, updates) ==
    IF st.err # NoError \/ ~Has(updates, "description") THEN st
    ELSE IF updates["description"].k = "nil"
        THEN [st EXCEPT !.c.Description = Nil]
    ELSE IF updates["description"].k = "string"
        THEN [st EXCEPT !.c.Description = Ptr(updates["description"].s)]
    ELSE [st EXCEPT !.err = "description must be a string or null"]

ApplyEmployees(st, updates) ==
    IF st.err # NoError \/ ~Has(updates, "employees") THEN st
    ELSE IF updates["employees"].k = "float64"
        THEN [st EXCEPT !.c.Employees = IntOfFloat(updates["employees"].f)]
    ELSE IF updates["employees"].k = "int"
        THEN [st EXCEPT !.c.Employees = updates["employees"].i]
    ELSE [st EXCEPT !.err = "employees must be a number"]

ApplyRegistered(st, updates) ==
    IF st.err # NoError \/ ~Has(updates, "registered") THEN st
    ELSE IF updates["registered"].k = "bool"
        THEN [st EXCEPT !.c.Registered = updates["registered"].b]
    ELSE [st EXCEPT !.err = "registered must be a boolean"]

ApplyType(st, updates) ==
    IF st.err # NoError \/ ~Has(updates, "type") THEN st
    ELSE IF updates["type"].k = "string"
        THEN [st EXCEPT !.c.Type = updates["type"].s]
    ELSE [st EXCEPT !.err = "type must be a string"]

\* applyUpdates(c, updates): the entity c as the function leaves it, and the
\* error it returns.
applyUpdates(c, updates) ==
    ApplyType(ApplyRegistered(ApplyEmployees(ApplyDescription(
        ApplyName([c |-> c, err |-> NoError], updates), updates), updates), updates), updates)

\* ------------------------------------------------------------- repository

\* The column constraints of the companies table other than the keys; a
\* violation is a driver error that is not a unique violation.
SchemaAccepts(c) ==
    /\ Len(c.Name) <= MaxNameLen
    /\ c.Description # Nil => Len(c.Description[1]) <= MaxDescriptionLen
    /\ c.Type \in ValidCompanyTypes

\* Each repository operation maps the table to the table after the statement
\* and the value and error the method returns.
\* RepoCreate on a table without the UNIQUE constraint on name.
RepoCreate_NoUnique(tbl, c) ==
    IF ~SchemaAccepts(c) THEN [tbl |-> tbl, err |-> ErrStorage]
    ELSE IF \E r \in tbl : r.ID = c.ID THEN [tbl |-> tbl, err |-> ErrDuplicateName]
    ELSE [tbl |-> tbl \cup {c}, err |-> NoError]

\* RepoCreate returning the driver's unique-violation error untranslated.
RepoCreate_RawError(tbl, c) ==
    IF ~SchemaAccepts(c) THEN [tbl |-> tbl, err |-> ErrStorage]
    ELSE IF \E r \in tbl : r.ID = c.ID \/ r.Name = c.Name
        THEN [tbl |-> tbl, err |-> ErrStorage]
    ELSE [tbl |-> tbl \cup {c}, err |-> NoError]

RepoCreate(tbl, c) ==
    IF ~SchemaAccepts(c) THEN [tbl |-> tbl, err |-> ErrStorage]
    ELSE IF \E r \in tbl : r.ID = c.ID \/ r.Name = c.Name
        THEN [tbl |-> tbl, err |-> ErrDuplicateName]
    ELSE [tbl |-> tbl \cup {c}, err |-> NoError]

RepoGetByID(tbl, id) ==
    IF \E r \in tbl : r.ID = id
        THEN [val |-> Ptr(CHOOSE r \in tbl : r.ID = id), err |-> NoError]
    ELSE [val |-> Nil, err |-> ErrNotFound]

\* RepoGetByName that reports every name as absent.
RepoGetByName_Absent(tbl, name) == [val |-> Nil, err |-> NoError]

RepoGetByName(tbl, name) ==
    IF \E r \in tbl : r.Name = name
        THEN [val |-> Ptr(CHOOSE r \in tbl : r.Name = name), err |-> NoError]
    ELSE [val |-> Nil, err |-> NoError]

\* RepoUpdate on a table without the UNIQUE constraint on name.
RepoUpdate_NoUnique(tbl, c) ==
    IF ~\E r \in tbl : r.ID = c.ID THEN [tbl |-> tbl, err |-> ErrNotFound]
    ELSE IF ~SchemaAccepts(c) THEN [tbl |-> tbl, err |-> ErrStorage]
    ELSE [tbl |-> {r \in tbl : r.ID # c.ID} \cup {c}, err |-> NoError]

\* RepoUpdate that inserts the row when no row has the id.
RepoUpdate_Upsert(tbl, c) ==
    IF ~SchemaAccepts(c) THEN [tbl |-> tbl, err |-> ErrStorage]
    ELSE IF \E r \in tbl : r.ID # c.ID /\ r.Name = c.Name
        THEN [tbl |-> tbl, err |-> ErrDuplicateName]
    ELSE [tbl |-> {r \in tbl : r.ID # c.ID} \cup {c}, err |-> NoError]

RepoUpdate(tbl, c) ==
    IF ~\E r \in tbl : r.ID = c.ID THEN [tbl |-> tbl, err |-> ErrNotFound]
    ELSE IF ~SchemaAccepts(c) THEN [tbl |-> tbl, err |-> ErrStorage]
    ELSE IF \E r \in tbl : r.ID # c.ID /\ r.Name = c.Name
        THEN [tbl |-> tbl, err |-> ErrDuplicateName]
    ELSE [tbl |-> {r \in tbl : r.ID # c.ID} \cup {c}, err |-> NoError]

\* RepoDelete that reports success and leaves the row in the table.
RepoDelete_KeepsRow(tbl, id) ==
    IF ~\E r \in tbl : r.ID = id THEN [tbl |-> tbl, err |-> ErrNotFound]
    ELSE [tbl |-> tbl, err |-> NoError]

\* RepoDelete that does not look at the number of rows affected.
RepoDelete_NoRowCheck(tbl, id) == [tbl |-> {r \in tbl : r.ID # id}, err |-> NoError]

RepoDelete(tbl, id) ==
    IF ~\E r \in tbl : r.ID = id THEN [tbl |-> tbl, err |-> ErrNotFound]
    ELSE [tbl |-> {r \in tbl : r.ID # id}, err |-> NoError]

\* ------------------------------------------------------------- inputs

Candidate(name) == Company(NilID, name, Nil, 10, TRUE, "Corporations")

\* The candidates callers pass to Create: valid ones (one of them carrying an
\* id of its own), and ones that break one or several validation rules.
CreateInputs ==
    { Candidate("Acme"),
      Company(1, "Beta", Ptr("d"), 0, FALSE, "Sole Proprietorship"),
      Candidate(""),
      [Candidate(Name16) EXCEPT !.Employees = -1],
      [Candidate("Acme") EXCEPT !.Description = Ptr(Desc3001)],
      [Candidate("Beta") EXCEPT !.Type = "corporations"] }

\* The field maps callers pass to Patch: maps that merge into a valid entity,
\* maps that merge into an invalid one, and maps with a wrong-typed value
\* before, between and after well-typed ones.
PatchInputs ==
    { [employees |-> FloatV(205)],
      [name |-> StrV("Beta")],
      [name |-> StrV("Acme"), id |-> StrV("7")],
      [description |-> NullV],
      [description |-> StrV("d2"), registered |-> BoolV(FALSE), type |-> StrV("NonProfit")],
      [employees |-> FloatV(-10)],
      [name |-> StrV(Name16)],
      [name |-> StrV("Beta"), employees |-> StrV("many")],
      [name |-> FloatV(10), employees |-> IntV(7)],
      [description |-> StrV("d2"), type |-> NullV] }

\* ------------------------------------------------------------- state

VARIABLES
    companies,  \* the rows of the companies table
    nextID,     \* the next id uuid.New() returns
    events,     \* the messages written to the broker, in order
    nCalls,     \* service calls started so far
    faults,     \* collaborator failures injected so far
    pc,         \* per goroutine: the position in the service method
    op,         \* per goroutine: the service method being run
    args,       \* per goroutine: the arguments of the call
    cur,        \* per goroutine: the local entity (c, current, company)
    pre,        \* per goroutine: the entity as GetByID returned it
    err,        \* per goroutine: the error the call returned
    res,        \* per goroutine: the entity the call returned
    calls,      \* per goroutine: the collaborator calls made by the call, in order
    req,        \* per goroutine: the HTTP request being served, Nil for a direct call
    early       \* per goroutine: the status written before the service was called, 0 if none

vars == <<companies, nextID, events, nCalls, faults, pc, op, args, cur, pre, err, res, calls,
          req, early>>

shared == <<companies, nextID, events>>

Init ==
    /\ companies = {}
    /\ nextID = 1
    /\ events = <<>>
    /\ nCalls = 0
    /\ faults = 0
    /\ pc = [p \in Procs |-> "idle"]
    /\ op = [p \in Procs |-> "none"]
    /\ args = [p \in Procs |-> Nil]
    /\ cur = [p \in Procs |-> Nil]
    /\ pre = [p \in Procs |-> Nil]
    /\ err = [p \in Procs |-> NoError]
    /\ res = [p \in Procs |-> Nil]
    /\ calls = [p \in Procs |-> <<>>]
    /\ req = [p \in Procs |-> Nil]
    /\ early = [p \in Procs |-> 0]

\* The ids a caller can name: every id minted so far, and one never minted.
KnownIDs == 0 .. (nextID - 1)

\* Whether the collaborator call of this step fails.
CanFail == IF faults < MaxFaults THEN BOOLEAN ELSE {FALSE}

Fault(down) == faults' = IF down THEN faults + 1 ELSE faults

\* A goroutine is free to serve a new call.
Free(p) == pc[p] \in {"idle", "done"} /\ nCalls < MaxCalls

\* The call of method m with arguments a begins.
Begin(p, m, a) ==
    /\ nCalls' = nCalls + 1
    /\ op' = [op EXCEPT ![p] = m]
    /\ args' = [args EXCEPT ![p] = a]

\* The method returns (r, e).
Return(p, r, e) ==
    /\ pc' = [pc EXCEPT ![p] = "done"]
    /\ res' = [res EXCEPT ![p] = r]
    /\ err' = [err EXCEPT ![p] = e]

\* The method goes on to the step at label l.
Goto(p, l) ==
    /\ pc' = [pc EXCEPT ![p] = l]
    /\ UNCHANGED <<res, err>>

Called(p, fn, e) == calls' = [calls EXCEPT ![p] = Append(@, [fn |-> fn, err |-> e])]

\* ------------------------------------------------------------- Create

\* Create that probes by name before it validates.
CreateValidate_ProbeFirst(p, c) ==
    /\ Free(p)
    /\ Begin(p, "Create", [c |-> c])
    /\ cur' = [cur EXCEPT ![p] = Ptr(c)]
    /\ pre' = [pre EXCEPT ![p] = Nil]
    /\ calls' = [calls EXCEPT ![p] = <<[fn |-> "GetByName", err |-> NoError]>>]
    /\ pc' = [pc EXCEPT ![p] =
                IF RepoGetByName(companies, c.Name).val # Nil \/ Validate(c) # NoError
                THEN "done" ELSE "c_probe"]
    /\ res' = [res EXCEPT ![p] = Nil]
    /\ err' = [err EXCEPT ![p] =
                IF RepoGetByName(companies, c.Name).val # Nil THEN ErrDuplicateName
                ELSE Validate(c)]
    /\ UNCHANGED <<shared, faults>>

\* Create is called with candidate c: Validate.
CreateValidate(p, c) ==
    /\ Free(p)
    /\ Begin(p, "Create", [c |-> c])
    /\ cur' = [cur EXCEPT ![p] = Ptr(c)]
    /\ pre' = [pre EXCEPT ![p] = Nil]
    /\ calls' = [calls EXCEPT ![p] = <<>>]
    /\ pc' = [pc EXCEPT ![p] = IF Validate(c) # NoError THEN "done" ELSE "c_probe"]
    /\ res' = [res EXCEPT ![p] = Nil]
    /\ err' = [err EXCEPT ![p] = Validate(c)]
    /\ UNCHANGED <<shared, faults>>

\* The by-name probe of a Create that mints an id only for a candidate without one.
CreateProbe_KeepsCallerID(p) ==
    /\ pc[p] = "c_probe"
    /\ \E down \in CanFail :
        LET r == IF down THEN [val |-> Nil, err |-> ErrStorage]
                 ELSE RepoGetByName(companies, cur[p][1].Name)
        IN  /\ Fault(down)
            /\ Called(p, "GetByName", r.err)
            /\ IF r.err # NoError
                   THEN Return(p, Nil, r.err) /\ UNCHANGED <<cur, nextID>>
               ELSE IF r.val # Nil
                   THEN Return(p, Nil, ErrDuplicateName) /\ UNCHANGED <<cur, nextID>>
               ELSE IF cur[p][1].ID # NilID
                   THEN Goto(p, "c_insert") /\ UNCHANGED <<cur, nextID>>
               ELSE /\ cur' = [cur EXCEPT ![p] = Ptr([@[1] EXCEPT !.ID = nextID])]
                    /\ nextID' = nextID + 1
                    /\ Goto(p, "c_insert")
    /\ UNCHANGED <<companies, events, nCalls, op, args, pre>>

\* repo.GetByName, and on no match uuid.New().
CreateProbe(p) ==
    /\ pc[p] = "c_probe"
    /\ \E down \in CanFail :
        LET r == IF down THEN [val |-> Nil, err |-> ErrStorage]
                 ELSE RepoGetByName(companies, cur[p][1].Name)
        IN  /\ Fault(down)
            /\ Called(p, "GetByName", r.err)
            /\ IF r.err # NoError
                   THEN Return(p, Nil, r.err) /\ UNCHANGED <<cur, nextID>>
               ELSE IF r.val # Nil
                   THEN Return(p, Nil, ErrDuplicateName) /\ UNCHANGED <<cur, nextID>>
               ELSE /\ cur' = [cur EXCEPT ![p] = Ptr([@[1] EXCEPT !.ID = nextID])]
                    /\ nextID' = nextID + 1
                    /\ Goto(p, "c_insert")
    /\ UNCHANGED <<companies, events, nCalls, op, args, pre>>

\* CreateInsert that goes on to publish whatever repo.Create returned.
CreateInsert_IgnoresError(p) ==
    /\ pc[p] = "c_insert"
    /\ \E down \in CanFail :
        LET r == IF down THEN [tbl |-> companies, err |-> ErrStorage]
                 ELSE RepoCreate(companies, cur[p][1])
        IN  /\ Fault(down)
            /\ Called(p, "Create", r.err)
            /\ companies' = r.tbl
            /\ Goto(p, "c_publish")
    /\ UNCHANGED <<nextID, events, nCalls, op, args, cur, pre>>

\* repo.Create.
CreateInsert(p) ==
    /\ pc[p] = "c_insert"
    /\ \E down \in CanFail :
        LET r == IF down THEN [tbl |-> companies, err |-> ErrStorage]
                 ELSE RepoCreate(companies, cur[p][1])
        IN  /\ Fault(down)
            /\ Called(p, "Create", r.err)
            /\ companies' = r.tbl
            /\ IF r.err # NoError THEN Return(p, Nil, r.err) ELSE Goto(p, "c_publish")
    /\ UNCHANGED <<nextID, events, nCalls, op, args, cur, pre>>

\* producer.Publish of eventType with payload: the error is logged and dropped.
Publish(p, eventType, payload) ==
    \E down \in CanFail :
        /\ Fault(down)
        /\ Called(p, "Publish", IF down THEN ErrPublish ELSE NoError)
        /\ events' = IF down THEN events
                     ELSE Append(events, [type |-> eventType, payload |-> payload])

\* CreatePublish that returns the publish error to the caller.
CreatePublish_Propagates(p) ==
    /\ pc[p] = "c_publish"
    /\ Publish(p, "CompanyCreated", cur[p][1])
    /\ IF events' = events THEN Return(p, Nil, ErrPublish) ELSE Return(p, cur[p], NoError)
    /\ UNCHANGED <<companies, nextID, nCalls, op, args, cur, pre>>

CreatePublish(p) ==
    /\ pc[p] = "c_publish"
    /\ Publish(p, "CompanyCreated", cur[p][1])
    /\ Return(p, cur[p], NoError)
    /\ UNCHANGED <<companies, nextID, nCalls, op, args, cur, pre>>

\* ------------------------------------------------------------- Get

Get(p, id) ==
    /\ Free(p)
    /\ Begin(p, "Get", [id |-> id])
    /\ \E down \in CanFail :
        LET r == IF down THEN [val |-> Nil, err |-> ErrStorage]
                 ELSE RepoGetByID(companies, id)
        IN  /\ Fault(down)
            /\ calls' = [calls EXCEPT ![p] = <<[fn |-> "GetByID", err |-> r.err]>>]
            /\ cur' = [cur EXCEPT ![p] = Nil]
            /\ pre' = [pre EXCEPT ![p] = r.val]
            /\ Return(p, r.val, r.err)
    /\ UNCHANGED shared

\* ------------------------------------------------------------- Patch

\* The guard of the duplicate-name probe, evaluated on the entity after
\* applyUpdates has run: updates["name"].(string) succeeds and differs from
\* current.Name.
NameProbeNeeded(updates, current) ==
    /\ Has(updates, "name")
    /\ updates["name"].k = "string"
    /\ updates["name"].s # current.Name

\* PatchFetch that does not validate the merged entity.
PatchFetch_SkipsValidate(p, id, updates) ==
    /\ Free(p)
    /\ Begin(p, "Patch", [id |-> id, updates |-> updates])
    /\ \E down \in CanFail :
        LET r == IF down THEN [val |-> Nil, err |-> ErrStorage]
                 ELSE RepoGetByID(companies, id)
            m == applyUpdates(r.val[1], updates)
        IN  /\ Fault(down)
            /\ calls' = [calls EXCEPT ![p] = <<[fn |-> "GetByID", err |-> r.err]>>]
            /\ pre' = [pre EXCEPT ![p] = r.val]
            /\ IF r.err # NoError
                   THEN /\ cur' = [cur EXCEPT ![p] = Nil]
                        /\ Return(p, Nil, r.err)
               ELSE /\ cur' = [cur EXCEPT ![p] = Ptr(m.c)]
                    /\ IF m.err # NoError THEN Return(p, Nil, m.err)
                       ELSE IF NameProbeNeeded(updates, m.c)
                           THEN /\ pc' = [pc EXCEPT ![p] = "p_probe"]
                                /\ res' = [res EXCEPT ![p] = Nil]
                                /\ err' = [err EXCEPT ![p] = NoError]
                       ELSE /\ pc' = [pc EXCEPT ![p] = "p_update"]
                            /\ res' = [res EXCEPT ![p] = Nil]
                            /\ err' = [err EXCEPT ![p] = NoError]
    /\ UNCHANGED shared

\* Patch is called with id and updates: repo.GetByID, applyUpdates, the guard
\* of the name probe and, when no probe is needed, Validate.
PatchFetch(p, id, updates) ==
    /\ Free(p)
    /\ Begin(p, "Patch", [id |-> id, updates |-> updates])
    /\ \E down \in CanFail :
        LET r == IF down THEN [val |-> Nil, err |-> ErrStorage]
                 ELSE RepoGetByID(companies, id)
            m == applyUpdates(r.val[1], updates)
        IN  /\ Fault(down)
            /\ calls' = [calls EXCEPT ![p] = <<[fn |-> "GetByID", err |-> r.err]>>]
            /\ pre' = [pre EXCEPT ![p] = r.val]
            /\ IF r.err # NoError
                   THEN /\ cur' = [cur EXCEPT ![p] = Nil]
                        /\ Return(p, Nil, r.err)
               ELSE /\ cur' = [cur EXCEPT ![p] = Ptr(m.c)]
                    /\ IF m.err # NoError THEN Return(p, Nil, m.err)
                       ELSE IF NameProbeNeeded(updates, m.c)
                           THEN /\ pc' = [pc EXCEPT ![p] = "p_probe"]
                                /\ res' = [res EXCEPT ![p] = Nil]
                                /\ err' = [err EXCEPT ![p] = NoError]
                       ELSE IF Validate(m.c) # NoError THEN Return(p, Nil, Validate(m.c))
                       ELSE /\ pc' = [pc EXCEPT ![p] = "p_update"]
                            /\ res' = [res EXCEPT ![p] = Nil]
                            /\ err' = [err EXCEPT ![p] = NoError]
    /\ UNCHANGED shared

\* PatchPersist whose update writes the field map merged onto the row as it is stored now.
PatchPersist_MergesOntoStored(p) ==
    /\ pc[p] \in {"p_probe", "p_update"}
    /\ \E down \in CanFail :
        /\ Fault(down)
        /\ IF pc[p] = "p_probe"
               THEN LET r == IF down THEN [val |-> Nil, err |-> ErrStorage]
                             ELSE RepoGetByName(companies, args[p].updates["name"].s)
                    IN  /\ Called(p, "GetByName", r.err)
                        /\ UNCHANGED companies
                        /\ IF r.err # NoError THEN Return(p, Nil, r.err)
                           ELSE IF r.val # Nil /\ r.val[1].ID # args[p].id
                               THEN Return(p, Nil, ErrDuplicateName)
                           ELSE IF Validate(cur[p][1]) # NoError
                               THEN Return(p, Nil, Validate(cur[p][1]))
                           ELSE Goto(p, "p_update")
           ELSE LET r == IF down THEN [tbl |-> companies, err |-> ErrStorage]
                         ELSE RepoUpdate(companies,
                                  IF \E x \in companies : x.ID = args[p].id
                                  THEN applyUpdates(CHOOSE x \in companies : x.ID = args[p].id,
                                                    args[p].updates).c
                                  ELSE cur[p][1])
                IN  /\ Called(p, "Update", r.err)
                    /\ companies' = r.tbl
                    /\ IF r.err # NoError THEN Return(p, Nil, r.err)
                       ELSE Goto(p, "p_publish")
    /\ UNCHANGED <<nextID, events, nCalls, op, args, cur, pre>>

\* At p_probe: repo.GetByName and Validate.  At p_update: repo.Update.
PatchPersist(p) ==
    /\ pc[p] \in {"p_probe", "p_update"}
    /\ \E down \in CanFail :
        /\ Fault(down)
        /\ IF pc[p] = "p_probe"
               THEN LET r == IF down THEN [val |-> Nil, err |-> ErrStorage]
                             ELSE RepoGetByName(companies, args[p].updates["name"].s)
                    IN  /\ Called(p, "GetByName", r.err)
                        /\ UNCHANGED companies
                        /\ IF r.err # NoError THEN Return(p, Nil, r.err)
                           ELSE IF r.val # Nil /\ r.val[1].ID # args[p].id
                               THEN Return(p, Nil, ErrDuplicateName)
                           ELSE IF Validate(cur[p][1]) # NoError
                               THEN Return(p, Nil, Validate(cur[p][1]))
                           ELSE Goto(p, "p_update")
           ELSE LET r == IF down THEN [tbl |-> companies, err |-> ErrStorage]
                         ELSE RepoUpdate(companies, cur[p][1])
                IN  /\ Called(p, "Update", r.err)
                    /\ companies' = r.tbl
                    /\ IF r.err # NoError THEN Return(p, Nil, r.err)
                       ELSE Goto(p, "p_publish")
    /\ UNCHANGED <<nextID, events, nCalls, op, args, cur, pre>>

\* PatchPublish that returns the publish error to the caller.
PatchPublish_Propagates(p) ==
    /\ pc[p] = "p_publish"
    /\ Publish(p, "CompanyUpdated", cur[p][1])
    /\ IF faults' # faults THEN Return(p, Nil, ErrPublish) ELSE Return(p, cur[p], NoError)
    /\ UNCHANGED <<companies, nextID, nCalls, op, args, cur, pre>>

PatchPublish(p) ==
    /\ pc[p] = "p_publish"
    /\ Publish(p, "CompanyUpdated", cur[p][1])
    /\ Return(p, cur[p], NoError)
    /\ UNCHANGED <<companies, nextID, nCalls, op, args, cur, pre>>

\* ------------------------------------------------------------- Delete

\* Delete is called with id: repo.GetByID.
DeleteFetch(p, id) ==
    /\ Free(p)
    /\ Begin(p, "Delete", [id |-> id])
    /\ \E down \in CanFail :
        LET r == IF down THEN [val |-> Nil, err |-> ErrStorage]
                 ELSE RepoGetByID(companies, id)
        IN  /\ Fault(down)
            /\ calls' = [calls EXCEPT ![p] = <<[fn |-> "GetByID", err |-> r.err]>>]
            /\ pre' = [pre EXCEPT ![p] = r.val]
            /\ cur' = [cur EXCEPT ![p] = r.val]
            /\ res' = [res EXCEPT ![p] = Nil]
            /\ err' = [err EXCEPT ![p] = r.err]
            /\ pc' = [pc EXCEPT ![p] = IF r.err # NoError THEN "done" ELSE "d_delete"]
    /\ UNCHANGED shared

\* DeleteExec that goes on to publish also when repo.Delete failed.
DeleteExec_AlwaysPublishes(p) ==
    /\ pc[p] = "d_delete"
    /\ \E down \in CanFail :
        LET r == IF down THEN [tbl |-> companies, err |-> ErrStorage]
                 ELSE RepoDelete(companies, args[p].id)
        IN  /\ Fault(down)
            /\ Called(p, "Delete", r.err)
            /\ companies' = r.tbl
            /\ Goto(p, "d_publish")
    /\ UNCHANGED <<nextID, events, nCalls, op, args, cur, pre>>

\* repo.Delete.
DeleteExec(p) ==
    /\ pc[p] = "d_delete"
    /\ \E down \in CanFail :
        LET r == IF down THEN [tbl |-> companies, err |-> ErrStorage]
                 ELSE RepoDelete(companies, args[p].id)
        IN  /\ Fault(down)
            /\ Called(p, "Delete", r.err)
            /\ companies' = r.tbl
            /\ IF r.err # NoError THEN Return(p, Nil, r.err) ELSE Goto(p, "d_publish")
    /\ UNCHANGED <<nextID, events, nCalls, op, args, cur, pre>>

DeletePublish(p) ==
    /\ pc[p] = "d_publish"
    /\ Publish(p, "CompanyDeleted", [id |-> args[p].id, name |-> cur[p][1].Name])
    /\ Return(p, Nil, NoError)
    /\ UNCHANGED <<companies, nextID, nCalls, op, args, cur, pre>>

\* ------------------------------------------------------------- system

\* The step belongs to the request the goroutine is already serving.
SameRequest == UNCHANGED <<req, early>>

Next ==
    \E p \in Procs :
        \/ \E c \in CreateInputs : CreateValidate(p, c) /\ SameRequest
        \/ CreateProbe(p) /\ SameRequest
        \/ CreateInsert(p) /\ SameRequest
        \/ CreatePublish(p) /\ SameRequest
        \/ \E id \in KnownIDs : Get(p, id) /\ SameRequest
        \/ \E id \in KnownIDs, updates \in PatchInputs :
              PatchFetch(p, id, updates) /\ SameRequest
        \/ PatchPersist(p) /\ SameRequest
        \/ PatchPublish(p) /\ SameRequest
        \/ \E id \in KnownIDs : DeleteFetch(p, id) /\ SameRequest
        \/ DeleteExec(p) /\ SameRequest
        \/ DeletePublish(p) /\ SameRequest

Spec == Init /\ [][Next]_vars

\* ------------------------------------------------------------- transport

UpperLetters == "ABCDEFGHIJKLMNOPQRSTUVWXYZ"

LowerLetters == "abcdefghijklmnopqrstuvwxyz"

CharAt(s, i) == SubSeq(s, i, i)

\* strings.ToLower, over the ASCII letters.
RECURSIVE ToLower(_)
ToLower(s) ==
    IF s = "" THEN ""
    ELSE LET ch == CharAt(s, 1)
             up == {i \in 1 .. Len(UpperLetters) : CharAt(UpperLetters, i) = ch}
         IN (IF up = {} THEN ch ELSE CharAt(LowerLetters, CHOOSE i \in up : TRUE))
            \o ToLower(SubSeq(s, 2, Len(s)))

\* strings.Split(s, " ").
RECURSIVE Split(_)
Split(s) ==
    LET at == {i \in 1 .. Len(s) : CharAt(s, i) = " "}
    IN IF at = {} THEN <<s>>
       ELSE LET i == CHOOSE j \in at : \A k \in at : j <= k
            IN <<SubSeq(s, 1, i - 1)>> \o Split(SubSeq(s, i + 1, Len(s)))

HasPrefix(s, prefix) ==
    Len(s) >= Len(prefix) /\ SubSeq(s, 1, Len(prefix)) = prefix

StatusOK == 200
StatusCreated == 201
StatusNoContent == 204
StatusBadRequest == 400
StatusUnauthorized == 401
StatusNotFound == 404
StatusConflict == 409
StatusInternalServerError == 500

\* What a handler or the middleware writes: a status and the error text of the body.
Reply(status, text) == [status |-> status, error |-> text]

\* The middleware lets the request through to the handler.
Pass == Reply(0, "")

\* JWTAuth that checks only the scheme the header begins with.
JWTAuth_SchemeOnly(authHeader) ==
    IF authHeader = "" THEN Reply(StatusUnauthorized, "missing authorization header")
    ELSE LET parts == Split(authHeader)
         IN IF ToLower(parts[1]) # "bearer"
            THEN Reply(StatusUnauthorized, "invalid authorization header format")
            ELSE Pass

\* JWTAuth: what the middleware writes for the Authorization header, or Pass.
JWTAuth(authHeader) ==
    IF authHeader = "" THEN Reply(StatusUnauthorized, "missing authorization header")
    ELSE LET parts == Split(authHeader)
         IN IF Len(parts) # 2 \/ ToLower(parts[1]) # "bearer"
            THEN Reply(StatusUnauthorized, "invalid authorization header format")
            ELSE IF parts[2] = "" THEN Reply(StatusUnauthorized, "empty token")
            ELSE Pass

\* The router: Post, Patch and Delete sit behind JWTAuth, Get does not.
Protected(method) == method \in {"POST", "PATCH", "DELETE"}

Token == "Bearer tok"

\* The Authorization headers the requests carry.
Headers ==
    {"", "Bearer", "Bearer ", "Bearer a b", "Basic dXNlcg==", "tok", "bearer tok", "BEARER tok",
     Token}

\* JWTAuth over those headers, computed once.
JWTAuthOf == [h \in Headers |-> JWTAuth(h)]

Middleware(r) == IF Protected(r.method) THEN JWTAuthOf[r.auth] ELSE Pass

Digits == "0123456789"

UUIDStem == "00000000-0000-4000-8000-00000000000"

\* uuid.UUID.String() for the id the model numbers n.
UUIDString(n) == UUIDStem \o CharAt(Digits, n + 1)

\* The texts of the ids, computed once.
UUIDStrings == [n \in 0 .. (Len(Digits) - 1) |-> UUIDString(n)]

\* uuid.Parse: the id, or an error for a text that is no UUID.
uuid_Parse(text) ==
    LET ns == {n \in DOMAIN UUIDStrings : UUIDStrings[n] = text}
    IN IF ns = {} THEN [id |-> NilID, err |-> "invalid UUID length"]
       ELSE [id |-> CHOOSE n \in ns : TRUE, err |-> NoError]

\* A request body: a JSON object with the given members, or a text that is not JSON.
Object(fields) == [k |-> "object", fields |-> fields]

Malformed == [k |-> "malformed"]

NoFields == <<>>

\* Whether json.Decoder can store the JSON value v in a field of the Go kind.
Fits(v, kind) ==
    \/ v.k = "nil"
    \/ kind = "string" /\ v.k = "string"
    \/ kind = "bool" /\ v.k = "bool"
    \/ kind = "int" /\ v.k = "float64" /\ v.f % 10 = 0

\* The member of a JSON object decoded into a struct field, zero when absent or null.
Field(fields, key, zero) ==
    IF Has(fields, key) /\ fields[key].k # "nil"
    THEN (CASE fields[key].k = "string" -> fields[key].s
            [] fields[key].k = "bool" -> fields[key].b
            [] fields[key].k = "float64" -> fields[key].f \div 10)
    ELSE zero

\* json.NewDecoder(r.Body).Decode(&req) for a CreateRequest.
DecodeCreateRequest(body) ==
    IF body.k = "nil" THEN [ok |-> TRUE, fields |-> NoFields]
    ELSE IF body.k # "object" THEN [ok |-> FALSE, fields |-> NoFields]
    ELSE [ok |-> /\ Has(body.fields, "name") => Fits(body.fields["name"], "string")
                 /\ Has(body.fields, "description") => Fits(body.fields["description"], "string")
                 /\ Has(body.fields, "employees") => Fits(body.fields["employees"], "int")
                 /\ Has(body.fields, "registered") => Fits(body.fields["registered"], "bool")
                 /\ Has(body.fields, "type") => Fits(body.fields["type"], "string"),
          fields |-> body.fields]

\* The Company the Create handler builds from a decoded CreateRequest.
CompanyOf(fields) ==
    Company(NilID,
            Field(fields, "name", ""),
            IF Has(fields, "description") /\ fields["description"].k = "string"
            THEN Ptr(fields["description"].s) ELSE Nil,
            Field(fields, "employees", 0),
            Field(fields, "registered", FALSE),
            Field(fields, "type", ""))

\* json.NewDecoder(r.Body).Decode(&updates) for a map[string]interface{}.
DecodeUpdates(body) ==
    IF body.k = "nil" THEN [ok |-> TRUE, updates |-> NoFields]
    ELSE IF body.k # "object" THEN [ok |-> FALSE, updates |-> NoFields]
    ELSE [ok |-> TRUE, updates |-> body.fields]

\* delete(updates, key).
MapDelete(updates, key) == [k \in DOMAIN updates \ {key} |-> updates[k]]

ValidationPrefixes ==
    {"name is required", "name must be", "description must be",
     "employees cannot be", "invalid company type", "registered"}

isValidationError(msg) == \E prefix \in ValidationPrefixes : HasPrefix(msg, prefix)

\* handleServiceError: the reply for an error the service returned.
handleServiceError(e) ==
    IF e = ErrNotFound THEN Reply(StatusNotFound, e)
    ELSE IF e = ErrDuplicateName THEN Reply(StatusConflict, e)
    ELSE IF isValidationError(e) THEN Reply(StatusBadRequest, e)
    ELSE Reply(StatusInternalServerError, "internal server error")

\* The status the handler of the service method m writes on success.
SuccessStatus(m) ==
    CASE m = "Create" -> StatusCreated
      [] m = "Delete" -> StatusNoContent
      [] OTHER -> StatusOK

\* An HTTP request: the method, the Authorization header ("" when absent), the
\* {id} of the path and the body.
Request(method, auth, id, body) == [method |-> method, auth |-> auth, id |-> id, body |-> body]

\* The request is answered before the service is called.
Answer(p, r, reply) ==
    /\ Free(p)
    /\ req' = [req EXCEPT ![p] = Ptr(r)]
    /\ early' = [early EXCEPT ![p] = reply]
    /\ pc' = [pc EXCEPT ![p] = "done"]
    /\ op' = [op EXCEPT ![p] = "none"]
    /\ args' = [args EXCEPT ![p] = Nil]
    /\ cur' = [cur EXCEPT ![p] = Nil]
    /\ pre' = [pre EXCEPT ![p] = Nil]
    /\ res' = [res EXCEPT ![p] = Nil]
    /\ err' = [err EXCEPT ![p] = NoError]
    /\ calls' = [calls EXCEPT ![p] = <<>>]
    /\ UNCHANGED <<shared, nCalls, faults>>

\* The request goes on to the service.
Forward(p, r) ==
    /\ req' = [req EXCEPT ![p] = Ptr(r)]
    /\ early' = [early EXCEPT ![p] = Pass]

\* POST /companies.
HandlerCreate(p, r) ==
    LET mw == Middleware(r)
        dec == DecodeCreateRequest(r.body)
    IN /\ r.method = "POST"
       /\ IF mw # Pass THEN Answer(p, r, mw)
          ELSE IF ~dec.ok THEN Answer(p, r, Reply(StatusBadRequest, "invalid JSON body"))
          ELSE CreateValidate(p, CompanyOf(dec.fields)) /\ Forward(p, r)

\* GET /companies/{id}.
HandlerGet(p, r) ==
    LET mw == Middleware(r)
        id == uuid_Parse(r.id)
    IN /\ r.method = "GET"
       /\ IF mw # Pass THEN Answer(p, r, mw)
          ELSE IF id.err # NoError THEN Answer(p, r, Reply(StatusBadRequest, "invalid UUID format"))
          ELSE Get(p, id.id) /\ Forward(p, r)

\* PATCH /companies/{id}.
HandlerPatch(p, r) ==
    LET mw == Middleware(r)
        id == uuid_Parse(r.id)
        dec == DecodeUpdates(r.body)
        updates == MapDelete(dec.updates, "id")
    IN /\ r.method = "PATCH"
       /\ IF mw # Pass THEN Answer(p, r, mw)
          ELSE IF id.err # NoError THEN Answer(p, r, Reply(StatusBadRequest, "invalid UUID format"))
          ELSE IF ~dec.ok THEN Answer(p, r, Reply(StatusBadRequest, "invalid JSON body"))
          ELSE IF DOMAIN updates = {}
          THEN Answer(p, r, Reply(StatusBadRequest, "no fields to update"))
          ELSE PatchFetch(p, id.id, updates) /\ Forward(p, r)

\* DELETE /companies/{id}.
HandlerDelete(p, r) ==
    LET mw == Middleware(r)
        id == uuid_Parse(r.id)
    IN /\ r.method = "DELETE"
       /\ IF mw # Pass THEN Answer(p, r, mw)
          ELSE IF id.err # NoError THEN Answer(p, r, Reply(StatusBadRequest, "invalid UUID format"))
          ELSE DeleteFetch(p, id.id) /\ Forward(p, r)

\* The reply the client of goroutine p has received, Pass while there is none.
Response(p) ==
    IF req[p] = Nil \/ pc[p] # "done" THEN Pass
    ELSE IF early[p] # Pass THEN early[p]
    ELSE IF err[p] # NoError THEN handleServiceError(err[p])
    ELSE Reply(SuccessStatus(op[p]), "")

AcmeBody ==
    Object([name |-> StrV("Acme"), employees |-> FloatV(100), registered |-> BoolV(TRUE),
            type |-> StrV("Corporations")])

CreateBodies ==
    {AcmeBody,
     Object([name |-> StrV("Beta"), description |-> StrV("d"), employees |-> FloatV(0),
             type |-> StrV("NonProfit")]),
     Object([id |-> StrV(UUIDString(1)), name |-> StrV("Gamma"), description |-> NullV,
             employees |-> FloatV(70), registered |-> BoolV(FALSE),
             type |-> StrV("Cooperative")]),
     Object([name |-> StrV(Name16), employees |-> FloatV(10), registered |-> BoolV(TRUE),
             type |-> StrV("Corporations")]),
     Object([name |-> StrV("Acme"), employees |-> FloatV(205), registered |-> BoolV(TRUE),
             type |-> StrV("Corporations")]),
     Object([name |-> FloatV(10)]),
     NullV,
     Malformed}

PatchBodies ==
    {Object([employees |-> FloatV(205)]),
     Object([name |-> StrV("Beta")]),
     Object(NoFields),
     Object([id |-> StrV(UUIDString(2))]),
     Object([foo |-> StrV("bar")]),
     Object([employees |-> StrV("many")]),
     Object([type |-> FloatV(10)]),
     Object([name |-> FloatV(10)]),
     Object([description |-> BoolV(TRUE)]),
     Object([registered |-> StrV("yes")]),
     NullV,
     Malformed}

\* The {id} a client can put in the path: the text of an id, or a text that is none.
PathIDs == {UUIDStrings[id] : id \in KnownIDs}

NotAUUID == "not-a-uuid"

CreateRequests ==
    {Request("POST", Token, "", body) : body \in CreateBodies}
    \cup {Request("POST", h, "", AcmeBody) : h \in Headers}

GetRequests ==
    {Request("GET", "", id, NullV) : id \in PathIDs \cup {NotAUUID}}
    \cup {Request("GET", Token, UUIDStrings[1], NullV)}

PatchRequests ==
    {Request("PATCH", Token, id, body) : id \in PathIDs, body \in PatchBodies}
    \cup {Request("PATCH", Token, NotAUUID, Object([name |-> StrV("Beta")])),
          Request("PATCH", "", UUIDStrings[1], Object([name |-> StrV("Beta")])),
          Request("PATCH", "Bearer a b", UUIDStrings[1], Object([name |-> StrV("Beta")]))}

DeleteRequests ==
    {Request("DELETE", Token, id, NullV) : id \in PathIDs \cup {NotAUUID}}
    \cup {Request("DELETE", "", UUIDStrings[1], NullV),
          Request("DELETE", "Basic dXNlcg==", UUIDStrings[1], NullV)}

\* The goroutines that serve HTTP requests.
Servers == {"p1"}

NextHttp ==
    \E p \in Servers :
        \/ \E r \in CreateRequests : HandlerCreate(p, r)
        \/ CreateProbe(p) /\ SameRequest
        \/ CreateInsert(p) /\ SameRequest
        \/ CreatePublish(p) /\ SameRequest
        \/ \E r \in GetRequests : HandlerGet(p, r)
        \/ \E r \in PatchRequests : HandlerPatch(p, r)
        \/ PatchPersist(p) /\ SameRequest
        \/ PatchPublish(p) /\ SameRequest
        \/ \E r \in DeleteRequests : HandlerDelete(p, r)
        \/ DeleteExec(p) /\ SameRequest
        \/ DeletePublish(p) /\ SameRequest

SpecHttp == Init /\ [][NextHttp]_vars

TypeOK ==
    /\ \A r \in companies : r.ID \in 1 .. (nextID - 1)
    /\ \A p \in Procs : pc[p] \in {"idle", "done", "c_probe", "c_insert", "c_publish",
                                   "p_probe", "p_update", "p_publish", "d_delete", "d_publish"}

\* ------------------------------------------------------------- properties

HoldsName(tbl, name) == \E r \in tbl : r.Name = name

\* The goroutine p takes the step at label l.
Steps(p, l) == pc[p] = l /\ pc'[p] # l

\* The collaborator call of the step was carried out (no failure injected).
NoFault == faults' = faults

Finished(p, m) == op[p] = m /\ pc[p] = "done"

\* The call of p has made a collaborator call fn that returned e.
Made(p, fn, e) == \E i \in 1 .. Len(calls[p]) : calls[p][i] = [fn |-> fn, err |-> e]

\* C1: in every reachable state, under any interleaving of concurrent Create,
\* Patch and Delete calls, no two stored Company records have the same name.
C1_UniqueNames == \A r1, r2 \in companies : r1 # r2 => r1.Name # r2.Name

\* Two records are stored and a Create that passed the by-name probe lost the
\* race for its name at the insert.
C1_Witness ==
    /\ Cardinality(companies) = 2
    /\ \E p \in Procs :
        /\ Finished(p, "Create")
        /\ err[p] = ErrDuplicateName
        /\ Made(p, "Create", ErrDuplicateName)

\* A candidate or stored record satisfies every validation rule.
RulesHold(c) ==
    /\ Len(c.Name) \in 1 .. 15
    /\ c.Description # Nil => Len(c.Description[1]) <= 3000
    /\ c.Employees >= 0
    /\ c.Type \in {"Corporations", "NonProfit", "Cooperative", "Sole Proprietorship"}

\* C2: every record that Create or Patch writes to the store satisfies all
\* validation rules: in every reachable state each stored record has a name of
\* length 1..15, a description of length <= 3000 when present, employees >= 0
\* and a type in the fixed four-value set.
C2_StoredRecordsValid == \A r \in companies : RulesHold(r)

\* A record written by Patch is stored, and another Patch was refused because
\* its merged entity broke a rule.
C2_Witness ==
    /\ \E r \in companies : r.Employees = 20
    /\ \E p \in Procs :
        /\ Finished(p, "Patch")
        /\ err[p] = "employees cannot be negative"

\* C3: when two Create calls with the same valid name both pass the by-name
\* probe before either inserts, the insert that finds the name free succeeds
\* and stores the record, and the insert that finds the name taken returns
\* DuplicateName (not a generic storage error), persists nothing and publishes
\* no event.
C3_RaceLoserGetsDuplicateName ==
    [][\A p \in Procs :
         Steps(p, "c_insert") /\ NoFault =>
            IF HoldsName(companies, cur[p][1].Name)
            THEN /\ pc'[p] = "done"
                 /\ err'[p] = ErrDuplicateName
                 /\ res'[p] = Nil
                 /\ companies' = companies
                 /\ events' = events
            ELSE /\ pc'[p] = "c_publish"
                 /\ companies' = companies \cup {cur[p][1]}
                 /\ events' = events]_vars

\* Both goroutines ran Create with the same name and both reached the insert;
\* one has returned the record and the other DuplicateName.
C3_Witness ==
    \E p, q \in Procs :
        /\ p # q
        /\ Finished(p, "Create") /\ Finished(q, "Create")
        /\ args[p].c.Name = args[q].c.Name
        /\ Made(p, "Create", NoError) /\ err[p] = NoError /\ res[p] # Nil
        /\ Made(q, "GetByName", NoError) /\ Made(q, "Create", ErrDuplicateName)
        /\ err[q] = ErrDuplicateName /\ res[q] = Nil

\* C4: Create with a name that a stored record already holds returns
\* DuplicateName with a nil result, performs no insert and publishes no event;
\* the store is unchanged.
C4_CreateDuplicateRejectedAtProbe ==
    [][\A p \in Procs :
         Steps(p, "c_probe") /\ NoFault /\ HoldsName(companies, cur[p][1].Name) =>
            /\ pc'[p] = "done"
            /\ err'[p] = ErrDuplicateName
            /\ res'[p] = Nil
            /\ calls'[p] = <<[fn |-> "GetByName", err |-> NoError]>>
            /\ companies' = companies
            /\ events' = events]_vars

\* A Create was refused at the probe: it returned DuplicateName having called
\* nothing but GetByName, while the holder of the name is stored.
C4_Witness ==
    \E p \in Procs :
        /\ Finished(p, "Create")
        /\ err[p] = ErrDuplicateName /\ res[p] = Nil
        /\ calls[p] = <<[fn |-> "GetByName", err |-> NoError]>>
        /\ HoldsName(companies, args[p].c.Name)

\* C5: Create with a candidate that fails validation returns the validation
\* error before any persistence call is made (no by-name probe, no insert) and
\* without publishing an event.
C5_InvalidCreateTouchesNothing ==
    \A p \in Procs :
        op[p] = "Create" /\ ~RulesHold(args[p].c) =>
            /\ pc[p] = "done"
            /\ err[p] \notin {NoError, ErrDuplicateName, ErrNotFound, ErrStorage}
            /\ res[p] = Nil
            /\ calls[p] = <<>>

\* A Create of a candidate whose name is taken and whose type is invalid has
\* returned the validation error.
C5_Witness ==
    \E p \in Procs :
        /\ Finished(p, "Create")
        /\ args[p].c.Type = "corporations"
        /\ HoldsName(companies, args[p].c.Name)
        /\ err[p] = "invalid company type: corporations"

Last(seq) == seq[Len(seq)]

PublishLabels == {"c_publish", "p_publish", "d_publish"}

\* C6: when the Event Port's publish fails, a Create, Patch or Delete whose
\* persistence step succeeded still returns success, and the persisted mutation
\* is neither rolled back nor altered.
C6_PublishFailureIsSwallowed ==
    [][\A p \in Procs :
         /\ pc[p] \in PublishLabels
         /\ pc'[p] # pc[p]
         /\ Last(calls'[p]) = [fn |-> "Publish", err |-> ErrPublish]
         => /\ pc'[p] = "done"
            /\ err'[p] = NoError
            /\ res'[p] = (IF op[p] = "Delete" THEN Nil ELSE cur[p])
            /\ companies' = companies
            /\ events' = events]_vars

\* A Create whose publish failed has returned the record without error and
\* the record is stored.
C6_Witness ==
    \E p \in Procs :
        /\ Finished(p, "Create")
        /\ calls[p] # <<>>
        /\ Last(calls[p]) = [fn |-> "Publish", err |-> ErrPublish]
        /\ err[p] = NoError
        /\ res[p] # Nil /\ res[p][1] \in companies

\* The persistence write of each mutating method.
WriteOf(m) ==
    CASE m = "Create" -> "Create"
      [] m = "Patch" -> "Update"
      [] m = "Delete" -> "Delete"
      [] OTHER -> "none"

EventOf(m) ==
    CASE m = "Create" -> "CompanyCreated"
      [] m = "Patch" -> "CompanyUpdated"
      [] m = "Delete" -> "CompanyDeleted"
      [] OTHER -> "none"

PublishesOf(p) == {i \in 1 .. Len(calls[p]) : calls[p][i].fn = "Publish"}

\* C7: in any execution, a CompanyCreated, CompanyUpdated or CompanyDeleted
\* publish is attempted only after the corresponding insert, update or delete
\* has succeeded, at most once per operation call, and never by an operation
\* call that returns an error; a message reaches the broker only in such a
\* publish step and carries the event type of the operation.
C7_PublishOnlyAfterCommittedWrite ==
    [][/\ \A p \in Procs :
            /\ Cardinality(PublishesOf(p)') <= 1
            /\ \A i \in PublishesOf(p)' :
                /\ i > 1
                /\ calls'[p][i - 1] = [fn |-> WriteOf(op'[p]), err |-> NoError]
            /\ (pc'[p] = "done" /\ err'[p] # NoError) => PublishesOf(p)' = {}
       /\ events' # events =>
            \E p \in Procs :
                /\ pc[p] \in PublishLabels
                /\ Last(calls[p]) = [fn |-> WriteOf(op[p]), err |-> NoError]
                /\ pc'[p] = "done" /\ err'[p] = NoError
                /\ Len(events') = Len(events) + 1
                /\ Last(events').type = EventOf(op[p])]_vars

\* One Delete has published its event after its delete succeeded, and a
\* concurrent Delete of the same id, whose delete found no row, has returned
\* NotFound without a publish.
C7_Witness ==
    \E p, q \in Procs :
        /\ Finished(p, "Delete") /\ Finished(q, "Delete")
        /\ calls[p] = <<[fn |-> "GetByID", err |-> NoError],
                        [fn |-> "Delete", err |-> NoError],
                        [fn |-> "Publish", err |-> NoError]>>
        /\ calls[q] = <<[fn |-> "GetByID", err |-> NoError],
                        [fn |-> "Delete", err |-> ErrNotFound]>>
        /\ err[q] = ErrNotFound
        /\ Len(events) = 2

\* C8: Patch(id, {name: X}) on an existing record with an otherwise valid
\* result returns DuplicateName exactly when a record with a different id holds
\* X, in which case both records stay unchanged; when the record id itself
\* already holds X the Patch succeeds (no self-collision).
C8_PatchNameCollision ==
    [][\A p \in Procs :
         /\ Steps(p, "p_update")
         /\ NoFault
         /\ Has(args[p].updates, "name")
         /\ \E r \in companies : r.ID = args[p].id
         => LET X == args[p].updates["name"].s
                taken == \E r \in companies : r.ID # args[p].id /\ r.Name = X
            IN  IF taken
                THEN /\ pc'[p] = "done"
                     /\ err'[p] = ErrDuplicateName
                     /\ res'[p] = Nil
                     /\ companies' = companies
                ELSE /\ pc'[p] = "p_publish"
                     /\ err'[p] = NoError
                     /\ \E r \in companies' : r.ID = args[p].id /\ r.Name = X]_vars

\* A Patch that renames a record to the name of another stored record has
\* returned DuplicateName, and both records are stored under their own names.
C8_Witness ==
    \E p \in Procs :
        /\ Finished(p, "Patch")
        /\ err[p] = ErrDuplicateName
        /\ Made(p, "Update", ErrDuplicateName)
        /\ \E r1, r2 \in companies :
            /\ r1.ID = args[p].id /\ r1.Name # args[p].updates["name"].s
            /\ r2.ID # args[p].id /\ r2.Name = args[p].updates["name"].s

\* The merged entity new differs from the fetched entity old only in fields the
\* field map names, and an employees value N alone in the map leaves employees
\* at N cut to its integer part.
OnlyNamedFieldsChanged(old, new, updates) ==
    /\ new.ID = old.ID
    /\ ~Has(updates, "name") => new.Name = old.Name
    /\ ~Has(updates, "description") => new.Description = old.Description
    /\ ~Has(updates, "employees") => new.Employees = old.Employees
    /\ ~Has(updates, "registered") => new.Registered = old.Registered
    /\ ~Has(updates, "type") => new.Type = old.Type
    /\ updates = [employees |-> FloatV(205)] => new.Employees = 20

\* C9: a successful Patch changes only the fields named in its field map: for
\* Patch(id, {employees: N}) the returned and stored record has employees = N
\* and every other field (id, name, description, registered, type) equal to the
\* value it had when the Patch fetched the record.
C9_PatchChangesOnlyNamedFields ==
    [][\A p \in Procs :
         /\ (Steps(p, "p_update") /\ pc'[p] = "p_publish") =>
                /\ cur[p][1] \in companies'
                /\ \A r \in companies' : r.ID = args[p].id => r = cur[p][1]
                /\ OnlyNamedFieldsChanged(pre[p][1], cur[p][1], args[p].updates)
         /\ Steps(p, "p_publish") =>
                /\ res'[p] = cur[p]
                /\ OnlyNamedFieldsChanged(pre[p][1], res'[p][1], args[p].updates)]_vars

\* Patch(id, {employees: 20.5}) on a record with a description has returned
\* the record, which is stored with employees 20 and its description.
C9_Witness ==
    \E p \in Procs :
        /\ Finished(p, "Patch")
        /\ args[p].updates = [employees |-> FloatV(205)]
        /\ err[p] = NoError
        /\ res[p][1] \in companies
        /\ res[p][1].Employees = 20
        /\ res[p][1].Description = Ptr("d")

TypeMismatchErrors ==
    { "name must be a string", "description must be a string or null",
      "employees must be a number", "registered must be a boolean",
      "type must be a string" }

\* The value v is of a kind that the merger rejects for the field key.
WrongTyped(key, v) ==
    CASE key = "name" -> v.k # "string"
      [] key = "description" -> v.k \notin {"string", "nil"}
      [] key = "employees" -> v.k \notin {"float64", "int"}
      [] key = "registered" -> v.k # "bool"
      [] key = "type" -> v.k # "string"
      [] OTHER -> FALSE

HasWrongTyped(updates) == \E key \in DOMAIN updates : WrongTyped(key, updates[key])

\* C10: the partial-update merge is all-or-nothing: when any recognized key in
\* the field map carries a wrong-typed value the merge fails with a
\* type-mismatch error and none of the map's fields is applied to the entity
\* (neither to the candidate nor to the stored record), whatever the position
\* of the bad field among the others.
C10_MergeAllOrNothing ==
    \A p \in Procs :
        Finished(p, "Patch") /\ pre[p] # Nil /\ HasWrongTyped(args[p].updates) =>
            /\ err[p] \in TypeMismatchErrors
            /\ calls[p] = <<[fn |-> "GetByID", err |-> NoError]>>
            /\ cur[p] = pre[p]

\* The part of C10 that the code keeps: the merge fails with a type-mismatch
\* error, Patch returns no record and makes no further persistence call.
C10_StoreUntouchedOnTypeMismatch ==
    \A p \in Procs :
        Finished(p, "Patch") /\ pre[p] # Nil /\ HasWrongTyped(args[p].updates) =>
            /\ err[p] \in TypeMismatchErrors
            /\ res[p] = Nil
            /\ calls[p] = <<[fn |-> "GetByID", err |-> NoError]>>

\* ------------------------------------------------------------- C11 .. C20

\* The fields a Patch can change.
MutableKeys == {"name", "description", "employees", "registered", "type"}

\* The request the goroutine p serves, once it is a request of the method
\* that got past the middleware, the parse of the path id and the decoding.
Admitted(p, method) ==
    /\ req[p] # Nil
    /\ req[p][1].method = method
    /\ Middleware(req[p][1]) = Pass
    /\ method # "POST" => uuid_Parse(req[p][1].id).err = NoError
    /\ method = "POST" => DecodeCreateRequest(req[p][1].body).ok
    /\ method = "PATCH" => DecodeUpdates(req[p][1].body).ok

\* The request of p was answered with the status and made no service call.
AnsweredEarly(p, status) ==
    /\ pc[p] = "done"
    /\ early[p].status = status
    /\ op[p] = "none"
    /\ calls[p] = <<>>

\* C11: a Patch whose field map contains no recognized mutable key (an empty
\* map, a map holding only id, or a map holding only unknown keys) is rejected
\* with the empty-patch validation error before any persistence call is made:
\* no fetch, no update, no event.
C11_EmptyPatchRejected ==
    \A p \in Servers :
        /\ Admitted(p, "PATCH")
        /\ DOMAIN DecodeUpdates(req[p][1].body).updates \cap MutableKeys = {}
        => /\ AnsweredEarly(p, StatusBadRequest)
           /\ early[p].error = "no fields to update"

\* The part of C11 that the code keeps: a Patch whose field map is empty or
\* holds only id is rejected before any persistence call.
C11_EmptyOrIdOnlyRejected ==
    \A p \in Servers :
        /\ Admitted(p, "PATCH")
        /\ DOMAIN DecodeUpdates(req[p][1].body).updates \subseteq {"id"}
        => /\ AnsweredEarly(p, StatusBadRequest)
           /\ early[p].error = "no fields to update"

\* C12: a record's id never changes after creation: a Patch, including one
\* whose field map contains an id key, leaves the id of the entity it persists
\* and returns equal to the id the entity was fetched by.
C12_PatchKeepsID ==
    \A p \in Procs :
        op[p] = "Patch" =>
            /\ pre[p] # Nil => pre[p][1].ID = args[p].id
            /\ cur[p] # Nil => cur[p][1].ID = args[p].id
            /\ res[p] # Nil => res[p][1].ID = args[p].id

\* A Patch whose field map holds an id key and a name has stored and returned
\* the record under the id it was fetched by.
C12_Witness ==
    \E p \in Procs :
        /\ Finished(p, "Patch")
        /\ err[p] = NoError
        /\ Has(args[p].updates, "id")
        /\ res[p] # Nil
        /\ res[p][1].ID = args[p].id
        /\ res[p][1] \in companies

\* The ids uuid.New() has returned so far.
Minted == 1 .. (nextID - 1)

\* C13: Create assigns the id itself: the id of a stored or successfully
\* created record is one the service minted, whatever id the candidate carried,
\* it is not the nil id, and no two stored records have the same id.
C13_CreateAssignsID ==
    /\ \A r \in companies : r.ID \in Minted /\ r.ID # NilID
    /\ \A r1, r2 \in companies : r1.ID = r2.ID => r1 = r2
    /\ \A p \in Procs :
        Finished(p, "Create") /\ err[p] = NoError =>
            /\ res[p] # Nil
            /\ res[p][1].ID \in Minted
            /\ res[p][1].ID # NilID
            /\ \A q \in Procs \ {p} :
                Finished(q, "Create") /\ err[q] = NoError => res[q][1].ID # res[p][1].ID

\* A candidate that carried the id of a stored record was created under a
\* different, fresh id, next to that record.
C13_Witness ==
    \E p \in Procs :
        /\ Finished(p, "Create")
        /\ err[p] = NoError
        /\ args[p].c.ID # NilID
        /\ res[p][1].ID # args[p].c.ID
        /\ res[p][1] \in companies
        /\ \E r \in companies : r.ID = args[p].c.ID

\* C14: after a successful Delete(id), the record stays out of the store, and
\* every later Get(id) and every later Delete(id), a step that begins either
\* call, returns NotFound (never success) and leaves the store and the event
\* stream unchanged.
C14_DeletedStaysDeleted ==
    [][\A p \in Procs :
         Finished(p, "Delete") /\ err[p] = NoError =>
            /\ \A r \in companies' : r.ID # args[p].id
            /\ \A q \in Procs :
                Get(q, args[p].id) \/ DeleteFetch(q, args[p].id) =>
                    /\ pc'[q] = "done"
                    /\ res'[q] = Nil
                    /\ err'[q] # NoError
                    /\ NoFault => err'[q] = ErrNotFound
                    /\ companies' = companies
                    /\ events' = events]_vars

\* A Delete of an id has succeeded and published, and a Delete of the same id
\* by another goroutine has found no record to fetch and returned NotFound.
C14_Witness ==
    \E p, q \in Procs :
        /\ p # q
        /\ Finished(p, "Delete")
        /\ err[p] = NoError
        /\ Finished(q, "Delete")
        /\ args[q].id = args[p].id
        /\ err[q] = ErrNotFound
        /\ calls[q] = <<[fn |-> "GetByID", err |-> ErrNotFound]>>
        /\ \E i \in 1 .. Len(events) :
            events[i].type = "CompanyDeleted" /\ events[i].payload.id = args[p].id

\* The Delete call of p fetched the record and carried out the delete
\* statement (no storage failure).
FetchedAndDeleted(p) ==
    /\ Finished(p, "Delete")
    /\ Made(p, "GetByID", NoError)
    /\ Made(p, "Delete", NoError) \/ Made(p, "Delete", ErrNotFound)

\* C15: when two Delete calls on the same id both fetch the record before
\* either deletes, exactly one returns success and the other returns NotFound,
\* and exactly one of them attempts a CompanyDeleted publish.
C15_ConcurrentDeleteOneWinner ==
    \A p, q \in Procs :
        p # q /\ FetchedAndDeleted(p) /\ FetchedAndDeleted(q) /\ args[p].id = args[q].id =>
            /\ {err[p], err[q]} = {NoError, ErrNotFound}
            /\ Cardinality(PublishesOf(p)) + Cardinality(PublishesOf(q)) = 1
            /\ \A r \in {p, q} : PublishesOf(r) # {} <=> err[r] = NoError

\* Two Delete calls fetched the same record; one deleted it and published, the
\* other found no row to delete.
C15_Witness ==
    \E p, q \in Procs :
        /\ p # q
        /\ FetchedAndDeleted(p)
        /\ FetchedAndDeleted(q)
        /\ args[p].id = args[q].id
        /\ err[p] = NoError
        /\ err[q] = ErrNotFound
        /\ Made(p, "Publish", NoError)
        /\ PublishesOf(q) = {}

\* C16: when the record is gone at the time a Patch that fetched it reaches
\* its update, the Patch returns NotFound without a record, the store is left
\* as it is (the record is not re-created) and no event is published.
C16_PatchOfDeletedRecord ==
    [][\A p \in Procs :
         /\ Steps(p, "p_update")
         /\ NoFault
         /\ ~\E r \in companies : r.ID = args[p].id
         => /\ pc'[p] = "done"
            /\ err'[p] = ErrNotFound
            /\ res'[p] = Nil
            /\ companies' = companies
            /\ events' = events]_vars

\* A Patch fetched the record, another call deleted it, and the Patch's update
\* found no row: it returned NotFound and made no publish.
C16_Witness ==
    \E p, q \in Procs :
        /\ Finished(p, "Patch")
        /\ err[p] = ErrNotFound
        /\ calls[p] = <<[fn |-> "GetByID", err |-> NoError], [fn |-> "Update", err |-> ErrNotFound]>>
        /\ Finished(q, "Delete")
        /\ err[q] = NoError
        /\ args[q].id = args[p].id
        /\ ~\E r \in companies : r.ID = args[p].id

\* The messages of the validation rules of a Company.
RuleViolation(e) ==
    \/ e \in {"name is required", "name must be 15 characters or fewer",
              "description must be 3000 characters or fewer", "employees cannot be negative"}
    \/ HasPrefix(e, "invalid company type: ")

\* The request of p went through to the service, and the service has returned.
ServedByService(p) == req[p] # Nil /\ pc[p] = "done" /\ op[p] # "none"

\* The statuses of the outcomes other than validation errors.
StatusOfOutcome(p) ==
    /\ err[p] = NoError /\ op[p] = "Create" => Response(p).status = 201
    /\ err[p] = NoError /\ op[p] \in {"Get", "Patch"} => Response(p).status = 200
    /\ err[p] = NoError /\ op[p] = "Delete" => Response(p).status = 204
    /\ err[p] = ErrNotFound => Response(p).status = 404
    /\ err[p] = ErrDuplicateName => Response(p).status = 409
    /\ err[p] = ErrStorage =>
        Response(p).status = 500 /\ Response(p).error = "internal server error"

\* C17: the transport maps each outcome of the service to one status by error
\* kind: success gives 201 (Create), 200 (Get, Patch) or 204 (Delete); NotFound
\* gives 404; DuplicateName gives 409; every validation error, a broken rule or
\* a type mismatch, gives 400; a storage failure gives 500 with a generic text.
C17_StatusByErrorKind ==
    \A p \in Servers :
        ServedByService(p) =>
            /\ StatusOfOutcome(p)
            /\ RuleViolation(err[p]) \/ err[p] \in TypeMismatchErrors =>
                Response(p).status = 400

\* The part of C17 that the code keeps: every outcome but a type mismatch has
\* the status the claim names, and a type mismatch gives 400 or a generic 500.
C17_StatusExceptTypeMismatch ==
    \A p \in Servers :
        ServedByService(p) =>
            /\ StatusOfOutcome(p)
            /\ RuleViolation(err[p]) => Response(p).status = 400 /\ Response(p).error = err[p]
            /\ err[p] \in TypeMismatchErrors =>
                \/ Response(p).status = 400
                \/ Response(p).status = 500 /\ Response(p).error = "internal server error"

\* C18: for each of the five mutable fields, a Patch of a stored record that
\* supplies a wrong-typed value for the field is answered 400, never 500, and
\* makes no update.
C18_WrongTypedPatchIs400 ==
    \A p \in Servers :
        /\ ServedByService(p)
        /\ op[p] = "Patch"
        /\ pre[p] # Nil
        /\ HasWrongTyped(args[p].updates)
        => /\ Response(p).status = 400
           /\ calls[p] = <<[fn |-> "GetByID", err |-> NoError]>>

\* The part of C18 that the code keeps: nothing is persisted, and a wrong-typed
\* name, description or registered is answered 400.
C18_NothingPersistedOnTypeMismatch ==
    \A p \in Servers :
        /\ ServedByService(p)
        /\ op[p] = "Patch"
        /\ pre[p] # Nil
        /\ HasWrongTyped(args[p].updates)
        => /\ calls[p] = <<[fn |-> "GetByID", err |-> NoError]>>
           /\ pre[p][1] \in companies
           /\ (\E key \in {"name", "description", "registered"} :
                 Has(args[p].updates, key) /\ WrongTyped(key, args[p].updates[key]))
              => Response(p).status = 400

\* The header has the form "Bearer <non-empty token>": the scheme in any case, one
\* space, and a token of at least one character without a space in it.
WellFormedBearer(h) ==
    /\ Len(h) > Len("bearer ")
    /\ ToLower(SubSeq(h, 1, Len("bearer "))) = "bearer "
    /\ \A i \in (Len("bearer ") + 1) .. Len(h) : CharAt(h, i) # " "

WriteMethods == {"POST", "PATCH", "DELETE"}

\* C19: a Create, Patch or Delete request reaches the service only if it
\* carries an Authorization header of the form "Bearer <non-empty token>" (the
\* scheme compared without regard to case); otherwise it is answered 401 and
\* causes no persistence call, no change of the store and no event. Get is
\* served without any Authorization header.
C19_WritesNeedBearerToken ==
    /\ [](\A p \in Servers :
            req[p] # Nil =>
                /\ req[p][1].method \in WriteMethods /\ op[p] # "none" =>
                    WellFormedBearer(req[p][1].auth)
                /\ req[p][1].method \in WriteMethods /\ ~WellFormedBearer(req[p][1].auth) =>
                    AnsweredEarly(p, 401)
                /\ req[p][1].method = "GET" /\ uuid_Parse(req[p][1].id).err = NoError =>
                    op[p] = "Get" /\ calls[p] # <<>>)
    /\ [][\A p \in Servers :
            /\ pc[p] \in {"idle", "done"}
            /\ req'[p] # Nil
            /\ req'[p][1].method \in WriteMethods
            /\ ~WellFormedBearer(req'[p][1].auth)
            => UNCHANGED <<companies, nextID, events>>]_vars

\* A Delete of a stored record that carried a Basic authorization header was
\* answered 401 without a service call, and the record is still stored.
C19_Witness ==
    \E p \in Servers :
        /\ req[p] # Nil
        /\ req[p][1].method = "DELETE"
        /\ req[p][1].auth = "Basic dXNlcg=="
        /\ AnsweredEarly(p, 401)
        /\ \E r \in companies : UUIDString(r.ID) = req[p][1].id

\* C20: Create rejects a request whose body has no registered member: the
\* request is answered 400 and no record is persisted.
C20_CreateWithoutRegisteredRejected ==
    \A p \in Servers :
        /\ Admitted(p, "POST")
        /\ pc[p] = "done"
        /\ req[p][1].body.k = "object"
        /\ ~Has(req[p][1].body.fields, "registered")
        => /\ Response(p).status = 400
           /\ ~\E i \in 1 .. Len(calls[p]) : calls[p][i].fn = "Create"

\* ------------------------------------------------------------- C21 .. C30

\* The companies Validate is called on: every combination of names, descriptions,
\* employee counts and types on both sides of each rule's boundary.
ValidateInputs ==
    {Company(NilID, name, desc, emp, TRUE, typ) :
        name \in {"", "A", Name15, Name16},
        desc \in {Nil, Ptr(Desc3000), Ptr(Desc3001)},
        emp \in {-1, 0, 10},
        typ \in {"Corporations", "NonProfit", "Cooperative", "Sole Proprietorship",
                 "corporations", ""}}

\* A goroutine calls c.Validate().
CallValidate(p, c) ==
    /\ pc[p] \in {"idle", "done"}
    /\ pc' = [pc EXCEPT ![p] = "done"]
    /\ op' = [op EXCEPT ![p] = "Validate"]
    /\ args' = [args EXCEPT ![p] = [c |-> c]]
    /\ err' = [err EXCEPT ![p] = Validate(c)]
    /\ res' = [res EXCEPT ![p] = Nil]
    /\ cur' = [cur EXCEPT ![p] = Nil]
    /\ pre' = [pre EXCEPT ![p] = Nil]
    /\ calls' = [calls EXCEPT ![p] = <<>>]
    /\ UNCHANGED <<shared, nCalls, faults, req, early>>

NextValidate == \E p \in Servers, c \in ValidateInputs : CallValidate(p, c)

SpecValidate == Init /\ [][NextValidate]_vars

\* The reference rule list, in its fixed order: whether the company breaks the
\* rule, and the text the rule's message begins with.
ReferenceRules(c) ==
    << [broken |-> Len(c.Name) = 0, says |-> "name is required"],
       [broken |-> Len(c.Name) >= 16, says |-> "name must be 15 characters or fewer"],
       [broken |-> c.Description # Nil /\ Len(c.Description[1]) >= 3001,
        says |-> "description must be 3000 characters or fewer"],
       [broken |-> c.Employees <= -1, says |-> "employees cannot be negative"],
       [broken |-> c.Type \notin {"Corporations", "NonProfit", "Cooperative",
                                  "Sole Proprietorship"},
        says |-> "invalid company type"] >>

BrokenRules(c) == {i \in DOMAIN ReferenceRules(c) : ReferenceRules(c)[i].broken}

\* C21: validate(company) equals the reference rule list for every input: it
\* returns no error exactly when no rule is broken, and otherwise only the
\* message of the first broken rule in the order name presence, name length,
\* description length, employees sign, type membership.
C21_ValidateMatchesReference ==
    \A p \in Servers :
        op[p] = "Validate" =>
            LET c == args[p].c
                first == CHOOSE i \in BrokenRules(c) : \A j \in BrokenRules(c) : i <= j
            IN  /\ err[p] = NoError <=> BrokenRules(c) = {}
                /\ BrokenRules(c) # {} =>
                    /\ HasPrefix(err[p], ReferenceRules(c)[first].says)
                    /\ \A j \in DOMAIN ReferenceRules(c) \ {first} :
                        ~HasPrefix(err[p], ReferenceRules(c)[j].says)

\* Validate was called on a company that breaks the name-length, the employees
\* and the type rule, and returned the message of the name-length rule.
C21_Witness ==
    \E p \in Servers :
        /\ op[p] = "Validate"
        /\ BrokenRules(args[p].c) = {2, 4, 5}
        /\ err[p] = "name must be 15 characters or fewer"

\* The ids whose Delete has returned success to a goroutine.
DeletedIDs == {args[q].id : q \in {o \in Procs : Finished(o, "Delete") /\ err[o] = NoError}}

\* The live records that hold the name.
LiveHolders(name) == {r \in companies : r.Name = name /\ r.ID \notin DeletedIDs}

\* C22: name uniqueness is over live records only: a Create or a Patch that
\* takes a name no live record holds (its holder was deleted or renamed away)
\* passes the by-name probe and its write succeeds.
C22_FreedNameCanBeTaken ==
    [][\A p \in Procs :
         /\ Steps(p, "c_probe") /\ NoFault /\ LiveHolders(cur[p][1].Name) = {}
            => pc'[p] = "c_insert"
         /\ Steps(p, "c_insert") /\ NoFault /\ LiveHolders(cur[p][1].Name) = {}
            => pc'[p] = "c_publish" /\ cur[p][1] \in companies'
         /\ /\ Steps(p, "p_update")
            /\ NoFault
            /\ \E r \in companies : r.ID = args[p].id
            /\ \A r \in LiveHolders(cur[p][1].Name) : r.ID = args[p].id
            => pc'[p] = "p_publish" /\ cur[p][1] \in companies']_vars

\* A record was deleted, and a later Create has stored a new record under the
\* name the deleted record held.
C22_Witness ==
    \E p, q \in Procs :
        /\ Finished(q, "Delete")
        /\ err[q] = NoError
        /\ Finished(p, "Create")
        /\ err[p] = NoError
        /\ res[p][1].Name = cur[q][1].Name
        /\ res[p][1].ID # args[q].id
        /\ res[p][1] \in companies

\* A record was renamed by a Patch, and a later Create has stored a new record
\* under the name it held before.
C22_RenameWitness ==
    \E p, q \in Procs :
        /\ Finished(q, "Patch")
        /\ err[q] = NoError
        /\ pre[q][1].Name # res[q][1].Name
        /\ Finished(p, "Create")
        /\ err[p] = NoError
        /\ res[p][1].Name = pre[q][1].Name
        /\ res[p][1].ID > args[q].id
        /\ {res[p][1], res[q][1]} \subseteq companies

\* The Patch of p names a new name: the field map has a string name that
\* differs from the name of the fetched record, and no wrong-typed value.
NamesNewName(p) ==
    /\ op[p] = "Patch"
    /\ pre[p] # Nil
    /\ Has(args[p].updates, "name")
    /\ args[p].updates["name"].k = "string"
    /\ args[p].updates["name"].s # pre[p][1].Name
    /\ ~HasWrongTyped(args[p].updates)

\* C23: in Patch, when the field map contains a name that differs from the
\* stored name, the service probes persistence by that name after the merge and
\* before validation and update, and on finding a record with a different id
\* returns DuplicateName without calling update.
C23_PatchProbesNewName ==
    \A p \in Procs :
        NamesNewName(p) =>
            /\ Len(calls[p]) >= 2 => calls[p][2].fn = "GetByName"
            /\ pc[p] \in {"p_update", "p_publish"} => Made(p, "GetByName", NoError)
            /\ Finished(p, "Patch") /\ err[p] = ErrDuplicateName =>
                ~\E i \in 1 .. Len(calls[p]) : calls[p][i].fn = "Update"

\* What the code does instead of C23: no Patch ever makes the by-name probe.
C23_PatchNeverProbes ==
    \A p \in Procs :
        op[p] = "Patch" =>
            /\ pc[p] # "p_probe"
            /\ ~\E i \in 1 .. Len(calls[p]) : calls[p][i].fn = "GetByName"

\* The row of the table with the id.
RowOf(tbl, id) == CHOOSE r \in tbl : r.ID = id

\* C24: when two Patch calls on the same id both fetch the record before either
\* persists, neither is refused for that: an update of a record that changed
\* since it was fetched succeeds and stores the full candidate built from the
\* record as this call fetched it, so the last update wins and a field changed
\* only by the earlier writer goes back to the value the later writer fetched.
C24_LastWriteWins ==
    [][\A p \in Procs :
         /\ Steps(p, "p_update")
         /\ NoFault
         /\ \E r \in companies : r.ID = args[p].id /\ r # pre[p][1]
         /\ \A r \in companies : r.Name = cur[p][1].Name => r.ID = args[p].id
         => /\ pc'[p] = "p_publish"
            /\ RowOf(companies', args[p].id) = applyUpdates(pre[p][1], args[p].updates).c]_vars

\* Two Patch calls fetched the same record and both returned success; the
\* stored record is the candidate of one, and the employees the other one set
\* are back to the value that was fetched.
C24_Witness ==
    \E p, q \in Procs :
        /\ p # q
        /\ Finished(p, "Patch") /\ err[p] = NoError
        /\ Finished(q, "Patch") /\ err[q] = NoError
        /\ args[p].id = args[q].id
        /\ pre[p] = pre[q]
        /\ res[p][1].Employees # pre[p][1].Employees
        /\ res[q][1] \in companies
        /\ res[q][1].Employees = pre[p][1].Employees
        /\ res[q][1].Name # pre[q][1].Name

\* The persistence calls that write.
WriteCalls == {"Create", "Update", "Delete"}

\* C25: an operation call that returns an error has performed no insert,
\* update or delete: none of its persistence writes succeeded, and the step in
\* which it returns the error leaves the store as it was.
C25_ErrorMeansNoWrite ==
    /\ [](\A p \in Procs :
            pc[p] = "done" /\ err[p] # NoError =>
                ~\E i \in 1 .. Len(calls[p]) :
                    calls[p][i].fn \in WriteCalls /\ calls[p][i].err = NoError)
    /\ [][\A p \in Procs :
            pc[p] # "done" /\ pc'[p] = "done" /\ err'[p] # NoError =>
                companies' = companies]_vars

\* A Patch whose update was refused for a duplicate name has returned the
\* error, and the record it fetched is stored as it was, next to the holder of
\* the name.
C25_Witness ==
    \E p \in Procs :
        /\ Finished(p, "Patch")
        /\ Made(p, "Update", ErrDuplicateName)
        /\ err[p] = ErrDuplicateName
        /\ pre[p][1] \in companies
        /\ \E r \in companies : r.ID # args[p].id /\ r.Name = cur[p][1].Name

\* ------------------------------------------------------------- cancellation

\* The context.Context a call is given: live, or canceled.
Context(state) == [ctx |-> state]

Cancelled(p) == req[p] # Nil /\ req[p][1].ctx = "canceled"

\* The call begins under a context in the given state; a context that is
\* canceled already makes the first collaborator call of the call fail.
WithContext(p, state) ==
    /\ req' = [req EXCEPT ![p] = Ptr(Context(state))]
    /\ UNCHANGED early
    /\ state = "canceled" => faults < MaxFaults

\* ExecContext, QueryRowContext and WriteMessages return the context's error
\* when the context of the call is canceled: the collaborator call of the step fails.
HonoursContext(p) == Cancelled(p) => faults' = faults + 1

\* The step of a call in flight, under its context.
UnderContext(p) == SameRequest /\ HonoursContext(p)

\* The context of the call in flight is canceled.
Cancel(p) ==
    /\ pc[p] \notin {"idle", "done"}
    /\ req[p] = Ptr(Context("live"))
    /\ faults < MaxFaults
    /\ req' = [req EXCEPT ![p] = Ptr(Context("canceled"))]
    /\ UNCHANGED <<shared, nCalls, faults, pc, op, args, cur, pre, err, res, calls, early>>

ContextStates == {"live", "canceled"}

NextCancel ==
    \E p \in Servers :
        \/ \E c \in CreateInputs, st \in ContextStates :
              CreateValidate(p, c) /\ WithContext(p, st)
        \/ CreateProbe(p) /\ UnderContext(p)
        \/ CreateInsert(p) /\ UnderContext(p)
        \/ CreatePublish(p) /\ UnderContext(p)
        \/ \E id \in KnownIDs, st \in ContextStates :
              Get(p, id) /\ WithContext(p, st) /\ (st = "canceled" => faults' = faults + 1)
        \/ \E id \in KnownIDs, updates \in PatchInputs, st \in ContextStates :
              PatchFetch(p, id, updates) /\ WithContext(p, st)
              /\ (st = "canceled" => faults' = faults + 1)
        \/ PatchPersist(p) /\ UnderContext(p)
        \/ PatchPublish(p) /\ UnderContext(p)
        \/ \E id \in KnownIDs, st \in ContextStates :
              DeleteFetch(p, id) /\ WithContext(p, st)
              /\ (st = "canceled" => faults' = faults + 1)
        \/ DeleteExec(p) /\ UnderContext(p)
        \/ DeletePublish(p) /\ UnderContext(p)
        \/ Cancel(p)

SpecCancel == Init /\ [][NextCancel]_vars

\* The call of p has made a persistence write that succeeded.
HasWritten(p) ==
    \E i \in 1 .. Len(calls[p]) : calls[p][i].fn \in WriteCalls /\ calls[p][i].err = NoError

C26_WitnessBeforeWrite ==
    \E p \in Servers :
        /\ Cancelled(p)
        /\ Finished(p, "Create")
        /\ err[p] # NoError
        /\ calls[p] # <<>>
        /\ Last(calls[p]).fn = "Create"
        /\ companies = {}

\* ------------------------------------------------------------- legacy rows

\* Tables that hold one row written before the service's rules applied: rows
\* the column constraints of the table accept and Validate rejects.
LegacyTables ==
    {{Company(1, "", Nil, 10, TRUE, "Corporations")},
     {Company(1, "Acme", Ptr("d"), -5, TRUE, "Corporations")}}

InitLegacy ==
    /\ companies \in {tbl \in LegacyTables : \A r \in tbl : SchemaAccepts(r)}
    /\ nextID = 2
    /\ events = <<>>
    /\ nCalls = 0
    /\ faults = 0
    /\ pc = [p \in Procs |-> "idle"]
    /\ op = [p \in Procs |-> "none"]
    /\ args = [p \in Procs |-> Nil]
    /\ cur = [p \in Procs |-> Nil]
    /\ pre = [p \in Procs |-> Nil]
    /\ err = [p \in Procs |-> NoError]
    /\ res = [p \in Procs |-> Nil]
    /\ calls = [p \in Procs |-> <<>>]
    /\ req = [p \in Procs |-> Nil]
    /\ early = [p \in Procs |-> 0]

NextLegacy ==
    \E p \in Servers :
        \/ \E c \in CreateInputs : CreateValidate(p, c) /\ SameRequest
        \/ CreateProbe(p) /\ SameRequest
        \/ CreateInsert(p) /\ SameRequest
        \/ CreatePublish(p) /\ SameRequest
        \/ \E id \in KnownIDs : Get(p, id) /\ SameRequest
        \/ \E id \in KnownIDs, updates \in PatchInputs :
              PatchFetch(p, id, updates) /\ SameRequest
        \/ PatchPersist(p) /\ SameRequest
        \/ PatchPublish(p) /\ SameRequest
        \/ \E id \in KnownIDs : DeleteFetch(p, id) /\ SameRequest
        \/ DeleteExec(p) /\ SameRequest
        \/ DeletePublish(p) /\ SameRequest

SpecLegacy == InitLegacy /\ [][NextLegacy]_vars

\* The field each rule of the reference list is about.
RuleField == <<"name", "name", "description", "employees", "type">>

\* The fetched record of the Patch of p breaks a rule in a field that the
\* field map does not name.
UnchangedFieldBroken(p) ==
    \E i \in BrokenRules(pre[p][1]) : ~Has(args[p].updates, RuleField[i])

\* C27: Patch validates the whole merged record, not only the changed fields:
\* a Patch whose fetched record breaks a rule in a field the map does not name
\* fails with the message of a broken rule, without calling update, and no
\* Patch reaches its update with a candidate that breaks a rule.
C27_PatchValidatesWholeRecord ==
    \A p \in Servers :
        op[p] = "Patch" /\ pre[p] # Nil =>
            /\ pc[p] \in {"p_update", "p_publish"} => BrokenRules(cur[p][1]) = {}
            /\ UnchangedFieldBroken(p) /\ ~HasWrongTyped(args[p].updates) =>
                /\ pc[p] = "done"
                /\ RuleViolation(err[p])
                /\ res[p] = Nil
                /\ calls[p] = <<[fn |-> "GetByID", err |-> NoError]>>
                /\ pre[p][1] \in companies

\* A Patch that sets only employees, to a valid value, on a stored record
\* whose name is empty has failed with the message of the name rule.
C27_Witness ==
    \E p \in Servers :
        /\ Finished(p, "Patch")
        /\ pre[p] # Nil
        /\ pre[p][1].Name = ""
        /\ DOMAIN args[p].updates = {"employees"}
        /\ args[p].updates["employees"] = FloatV(205)
        /\ err[p] = "name is required"
        /\ calls[p] = <<[fn |-> "GetByID", err |-> NoError]>>

\* The description a Patch with this field map leaves on a record whose
\* description was d: cleared by an explicit null, replaced by a text value,
\* kept when the map has no description key.
DescriptionAfter(d, updates) ==
    IF ~Has(updates, "description") THEN d
    ELSE IF updates["description"] = NullV THEN Nil
    ELSE Ptr(updates["description"].s)

\* C28: in a Patch, a description key with an explicit null clears the stored
\* description, a description key with a text value replaces it, and a field
\* map without a description key leaves the stored description as it was:
\* after a successful Patch the returned record and the stored row carry
\* exactly that description.
C28_DescriptionNullClears ==
    \A p \in Servers :
        Finished(p, "Patch") /\ err[p] = NoError =>
            LET d == DescriptionAfter(pre[p][1].Description, args[p].updates) IN
                /\ res[p] # Nil
                /\ res[p][1].Description = d
                /\ \E r \in companies : r.ID = args[p].id
                /\ RowOf(companies, args[p].id).Description = d

\* A successful Patch with an explicit null has cleared a description that
\* was set.
C28_Witness ==
    \E p \in Servers :
        /\ Finished(p, "Patch")
        /\ err[p] = NoError
        /\ pre[p][1].Description # Nil
        /\ Has(args[p].updates, "description")
        /\ args[p].updates["description"] = NullV
        /\ RowOf(companies, args[p].id).Description = Nil

\* A successful Patch with a text value has replaced a description that was set.
C28_WitnessText ==
    \E p \in Servers :
        /\ Finished(p, "Patch")
        /\ err[p] = NoError
        /\ pre[p][1].Description = Ptr("d")
        /\ Has(args[p].updates, "description")
        /\ RowOf(companies, args[p].id).Description = Ptr("d2")

\* A successful Patch without a description key has kept a description that
\* was set.
C28_WitnessAbsent ==
    \E p \in Servers :
        /\ Finished(p, "Patch")
        /\ err[p] = NoError
        /\ pre[p][1].Description = Ptr("d")
        /\ ~Has(args[p].updates, "description")
        /\ RowOf(companies, args[p].id).Description = Ptr("d")

\* ------------------------------------------------------------- event contents and order

\* Every CompanyDeleted message carries the name its Delete fetched: the
\* publish step of a Delete appends nothing else.
C29_EventCarriesFetchedName ==
    [][\A p \in Procs :
         Steps(p, "d_publish") /\ events' # events =>
             events' = Append(events, [type |-> "CompanyDeleted",
                                       payload |-> [id |-> args[p].id,
                                                    name |-> pre[p][1].Name]])]_vars

\* C29: the name carried by a published CompanyDeleted event equals the name
\* the record had in the store at the moment it was deleted, also when a Patch
\* renames the record between the Delete's fetch and its delete: whenever
\* repo.Delete removes a row, the name the Delete goes on to publish is the
\* name of the row it removes.
C29_DeletedEventCarriesStoredName ==
    [][\A p \in Procs :
         Steps(p, "d_delete") /\ pc'[p] = "d_publish" =>
             /\ cur'[p] = pre[p]
             /\ RowOf(companies, args[p].id).Name = cur'[p][1].Name]_vars

\* The positions in the broker's log of the messages of the given type about
\* the record id.
EventsAbout(type, id) ==
    {i \in 1 .. Len(events) :
        /\ events[i].type = type
        /\ IF type = "CompanyDeleted" THEN events[i].payload.id = id
           ELSE events[i].payload.ID = id}

LastOf(S) == CHOOSE i \in S : \A j \in S : j <= i

\* Every committed mutation has been published: no collaborator call has
\* failed and no call stands between its write and its publish.
AllPublished ==
    /\ faults = 0
    /\ \A p \in Procs : pc[p] \notin PublishLabels

\* The most recently published CompanyUpdated event of a stored record
\* carries the record as it is stored.
C30_LastUpdatedIsStored ==
    AllPublished =>
        \A r \in companies :
            EventsAbout("CompanyUpdated", r.ID) # {} =>
                events[LastOf(EventsAbout("CompanyUpdated", r.ID))].payload = r

\* No CompanyUpdated event of a record follows its CompanyDeleted event.
C30_NoUpdatedAfterDeleted ==
    \A id \in KnownIDs :
        \A i \in EventsAbout("CompanyDeleted", id), j \in EventsAbout("CompanyUpdated", id) :
            j < i

\* C30: for each id, events are published in the order their mutations were
\* committed: with concurrent Patch calls on one id and no publish failures,
\* the most recently published CompanyUpdated event carries the record that is
\* stored, and no CompanyUpdated event for an id is published after its
\* CompanyDeleted event.
C30_EventsInCommitOrder ==
    /\ C30_LastUpdatedIsStored
    /\ C30_NoUpdatedAfterDeleted

====
